---- MODULE Spec2Model ----
(***************************************************************************)
(* Model of the QWXIOE expansion-board driver (qwx_ioe_driver.c): an I2C   *)
(* client driver that exposes OUTPUTS_COUNT digital outputs and            *)
(* READERS_COUNT card readers as misc devices.                             *)
(*                                                                         *)
(* probe and remove are the driver-core callbacks; output_read,            *)
(* output_write and reader_read are the file operations.  A read is two    *)
(* bus transfers (i2c_master_send, then i2c_master_recv); each transfer is *)
(* atomic on the adapter, the pair is not, so a read is modelled as two    *)
(* steps (..._send, ..._recv) that other handles may interleave with.      *)
(***************************************************************************)
EXTENDS Integers, Sequences, FiniteSets, TLC

\* ---------------------------------------------------------------- constants

OUTPUTS_COUNT == 3

READERS_COUNT == 2

\* client->addr accepted by probe (0x50)
BOARD_ADDR == 80

\* errno of a failed copy_to_user / copy_from_user
EFAULT == 14

\* sizeof(data) in output_read: char data[3] = "0\n"
OUTPUT_DATA_SIZE == 3

\* sizeof(data) in reader_read: char data[12]
READER_DATA_SIZE == 12

\* sizeof(response) in reader_read: char response[8]
READER_RESP_SIZE == 8

\* ------------------------------------------------------------------- bounds

\* longest write request a caller issues (len of output_write)
MaxWriteLen == 2

\* largest value of the one response byte of an output query the board sends
MaxResp == 2

\* --------------------------------------------------------------- input sets

\* addresses of the I2C clients the driver core may hand to probe
ClientAddrs == {BOARD_ADDR, BOARD_ADDR + 1}

\* error codes misc_register may return (-ENOMEM, -EBUSY)
RegErrors == {-12, -16}

\* values the uninitialised local `error` of probe may hold
UninitInts == {0, -22, 1}

\* values an uninitialised stack byte may hold
StackJunk == {0, 255}

\* signedness of plain char: implementation-defined, either in a build
CharSigned == BOOLEAN

\* open file handles (two callers, so that two operations can overlap)
Handles == {1, 2}

\* first byte of the user buffer of a write: '0', '1', 'x'
WriteChars == {48, 49, 120}

\* one-byte responses of the board to an output query
RespBytes == 0..MaxResp

\* 8-byte responses of the board to a reader query
RespCards == { <<1, 2, 3, 0, 0, 0, 0, 0>>,
               <<0, 0, 0, 9, 9, 9, 9, 9>>,
               <<255, 255, 255, 0, 0, 0, 0, 0>> }

\* ---------------------------------------------------------------- channels

Out(i) == <<"s", i>>

Rd(j) == <<"w", j>>

Outputs == { Out(i) : i \in 0..(OUTPUTS_COUNT - 1) }

Readers == { Rd(j) : j \in 0..(READERS_COUNT - 1) }

Channels == Outputs \cup Readers

NoChan == <<"-", 0>>

VARIABLES
    addr,        \* client->addr of the I2C client
    bound,       \* driver core: "unbound" | "bound" (probe returned 0)
    clientdata,  \* i2c_get_clientdata(client): "null" | "dev"
    registered,  \* misc-device list: channel -> registered?
    oops,        \* the kernel faulted (NULL or freed device dereferenced)
    hch,         \* handle -> channel it is open on (NoChan: closed)
    stale,       \* handle -> its device was released by remove
    fpos,        \* handle -> file position *f_pos
    pc,          \* handle -> "idle" | "recv" (between send and receive)
    xfer,        \* handle -> bus transfers of the call in progress
    sel,         \* handle whose send the board received last (0: none)
    last         \* the call (probe, remove or file operation) that returned
                 \* last, with what it did:
                 \*   h     handle of a file operation, 0 for probe and remove
                 \*   ret   its return value
                 \*   rlog  its misc_register calls, << channel, result >>
                 \*   dlog  its misc_deregister calls,
                 \*         << channel, was it registered? >>
                 \*   xfer  its bus transfers
                 \*   resp  the contents of `response` it decoded (empty when
                 \*         nothing was copied to the caller); of a write, the
                 \*         character it copied from the caller
                 \*   out   the bytes it copied to the caller
                 \*   pos0, pos1  *f_pos before and after
                 \*   len   the length of a write request
                 \*   prev  of a write that follows, with no other handle
                 \*         open, a write of the same handle: << resp, the
                 \*         kinds and bytes of xfer >> of that write

vars == << addr, bound, clientdata, registered, oops, hch, stale,
           fpos, pc, xfer, sel, last >>

hostVars == << addr, bound, clientdata, registered >>

fileVars == << hch, stale, fpos, pc, xfer, sel >>

\* value of `last` when no call has returned
NoCall == [h |-> 0, op |-> "none", ch |-> NoChan, ret |-> 0, out |-> << >>,
           resp |-> << >>, xfer |-> << >>, pos0 |-> 0, pos1 |-> 0,
           len |-> 0, rlog |-> << >>, dlog |-> << >>, prev |-> << >>]

\* ------------------------------------------------- exposure mechanism (misc)

\* misc_register(dev): appends the call to the log; res = 0 registers it
misc_register(s, ch, res) ==
    [s EXCEPT !.rlog = Append(@, <<ch, res>>),
              !.reg  = [@ EXCEPT ![ch] = IF res = 0 THEN TRUE ELSE @]]

\* misc_deregister(dev): removes the device from the list
misc_deregister(s, ch) ==
    [s EXCEPT !.dlog = Append(@, <<ch, s.reg[ch]>>),
              !.reg  = [@ EXCEPT ![ch] = FALSE]]

\* result of the n-th misc_register call of a probe (n counts from 0):
\* plan = <<k, e>> makes call k fail with e, every earlier one succeed
RegResult(plan, n) == IF n = plan[1] THEN plan[2] ELSE 0

RegPlans == (0..(OUTPUTS_COUNT + READERS_COUNT)) \X RegErrors

add_output(s, output_number, res) == misc_register(s, Out(output_number), res)

\* (variant: readers taken from the last to the first)
add_reader_reversed(s, reader_number, res) ==
    misc_register(s, Rd(READERS_COUNT - 1 - reader_number), res)

add_reader(s, reader_number, res) == misc_register(s, Rd(reader_number), res)

\* for(index = from; index < to; index++) misc_deregister(&device->outputs[index])
RECURSIVE DeregOutputs(_, _, _)
DeregOutputs(s, index, to) ==
    IF index < to
    THEN DeregOutputs(misc_deregister(s, Out(index)), index + 1, to)
    ELSE s

\* for(index = from; index < to; index++) misc_deregister(&device->readers[index])
RECURSIVE DeregReaders(_, _, _)
DeregReaders(s, index, to) ==
    IF index < to
    THEN DeregReaders(misc_deregister(s, Rd(index)), index + 1, to)
    ELSE s

\* (variant: rolls back every output, registered or not)
RollbackOutputsAll(s, output) == DeregOutputs(s, 0, OUTPUTS_COUNT)

\* rollback of probe when add_output(output) failed
RollbackOutputs(s, output) == DeregOutputs(s, 0, output)

\* (variant: rolls back the readers and leaves the outputs registered)
RollbackReadersOnly(s, reader) == DeregReaders(s, 0, reader)

\* (variant: rolls back the reader that failed to register too)
RollbackReadersInclusive(s, reader) ==
    DeregOutputs(DeregReaders(s, 0, reader + 1), 0, OUTPUTS_COUNT)

\* rollback of probe when add_reader(reader) failed
RollbackReaders(s, reader) ==
    DeregOutputs(DeregReaders(s, 0, reader), 0, OUTPUTS_COUNT)

\* second loop of probe: register the readers from `reader` on
RECURSIVE ProbeReaders(_, _, _)
ProbeReaders(s, reader, plan) ==
    IF reader < READERS_COUNT
    THEN LET error == RegResult(plan, OUTPUTS_COUNT + reader)
             s1    == add_reader(s, reader, error)
         IN  IF error # 0
             THEN [st |-> RollbackReaders(s1, reader), ret |-> error]
             ELSE ProbeReaders(s1, reader + 1, plan)
    ELSE [st |-> s, ret |-> 0]

\* first loop of probe: register the outputs from `output` on
RECURSIVE ProbeOutputs(_, _, _)
ProbeOutputs(s, output, plan) ==
    IF output < OUTPUTS_COUNT
    THEN LET error == RegResult(plan, output)
             s1    == add_output(s, output, error)
         IN  IF error # 0
             THEN [st |-> RollbackOutputs(s1, output), ret |-> error]
             ELSE ProbeOutputs(s1, output + 1, plan)
    ELSE ProbeReaders(s, 0, plan)

\* the address test of probe
AddrAccepted(a) == a = BOARD_ADDR

\* (variant: stops after the outputs)
RemoveLoopsOutputsOnly(s) == DeregOutputs(s, 0, OUTPUTS_COUNT)

\* both loops of remove
RemoveLoops(s) ==
    DeregReaders(DeregOutputs(s, 0, OUTPUTS_COUNT), 0, READERS_COUNT)

\* ------------------------------------------------------------ host callbacks

\* probe with an address it does not recognise: returns the uninitialised
\* `error`; the driver core binds the client when that value is 0
probe_unrecognised ==
    /\ ~oops
    /\ bound = "unbound"
    /\ ~AddrAccepted(addr)
    /\ \E error \in UninitInts :
          /\ last' = [NoCall EXCEPT !.op = "probe", !.ret = error]
          /\ bound' = IF error = 0 THEN "bound" ELSE "unbound"
    /\ UNCHANGED << addr, clientdata, registered, oops >>
    /\ UNCHANGED fileVars

\* probe of a client at the board address
probe ==
    /\ ~oops
    /\ bound = "unbound"
    /\ AddrAccepted(addr)
    /\ \E plan \in RegPlans :
          LET s0 == [reg |-> registered, rlog |-> << >>, dlog |-> << >>]
              r  == ProbeOutputs(s0, 0, plan)
          IN  /\ registered' = r.st.reg
              /\ last' = [NoCall EXCEPT !.op = "probe", !.ret = r.ret,
                                        !.rlog = r.st.rlog, !.dlog = r.st.dlog]
              /\ bound' = IF r.ret = 0 THEN "bound" ELSE "unbound"
              \* the driver core clears the client data of a failed probe
              /\ clientdata' = IF r.ret = 0 THEN "dev" ELSE "null"
    /\ UNCHANGED << addr, oops >>
    /\ UNCHANGED fileVars

\* remove of a bound client; the driver core then releases the devm
\* allocations (the expansion_dev) and clears the client data
remove ==
    /\ ~oops
    /\ bound = "bound"
    /\ clientdata = "dev"
    /\ LET s0 == [reg |-> registered, rlog |-> << >>, dlog |-> << >>]
           s1 == RemoveLoops(s0)
       IN  /\ registered' = s1.reg
           /\ last' = [NoCall EXCEPT !.op = "remove", !.ret = 0,
                                     !.dlog = s1.dlog]
    /\ bound' = "unbound"
    /\ clientdata' = "null"
    /\ stale' = [p \in Handles |-> IF hch[p] # NoChan THEN TRUE ELSE stale[p]]
    /\ UNCHANGED << addr, oops >>
    /\ UNCHANGED << hch, fpos, pc, xfer, sel >>

\* remove of a client that was bound without a device: device is NULL
remove_null ==
    /\ ~oops
    /\ bound = "bound"
    /\ clientdata = "null"
    /\ oops' = TRUE
    /\ last' = [NoCall EXCEPT !.op = "remove_fault"]
    /\ UNCHANGED << addr, bound, clientdata, registered >>
    /\ UNCHANGED fileVars

\* ------------------------------------------------------------ name and index

\* device->name: "/exp0"
BoardName == << 47, 101, 120, 112, 48 >>

\* the decimal digits of a channel number, as "%d" prints them
RECURSIVE NumberText(_)
NumberText(n) ==
    IF n < 10 THEN << 48 + n >> ELSE NumberText(n \div 10) \o << 48 + (n % 10) >>

\* the name add_output / add_reader print for the device: "%s/s%d", "%s/w%d"
MiscName(ch) ==
    BoardName \o << 47, (IF ch[1] = "s" THEN 115 ELSE 119) >> \o NumberText(ch[2])

\* d_name.name of a node: what follows the last '/' of its path
LastComponent(path) ==
    LET slashes == { k \in 1..Len(path) : path[k] = 47 }
        from    == IF slashes = {} THEN 1
                   ELSE 1 + CHOOSE k \in slashes : \A m \in slashes : m <= k
    IN  SubSeq(path, from, Len(path))

\* d_name.name of the node of a channel: the last path component of the
\* name add_output / add_reader give the device
DentryName(ch) == LastComponent(MiscName(ch))

\* (variant: the index read from the first character of the name)
IndexFromName0(name) == name[1] - 48

\* file->f_path.dentry->d_name.name[1] - '0'
IndexFromName(name) == name[2] - 48

\* ------------------------------------------------------------------ encoding

\* a value stored in a char, as the byte it occupies
Byte(x) == x % 256

\* address byte of an output query: 0x70 + output
OutputAddress(output) == Byte(112 + output)

\* (variant: readers one address apart)
ReaderAddressBy1(reader) == Byte(16 + reader)

\* address byte of a reader query: 0x10 + 0x08 * reader
ReaderAddress(reader) == Byte(16 + 8 * reader)

\* (variant: ON and OFF exchanged)
OutputCommandInverted(c, output) ==
    << (IF c = 49 THEN 112 ELSE 113), Byte(output) >>

\* command of a write: data[0] = 0x71 when the first character is '1',
\* 0x70 otherwise; data[1] = output
OutputCommand(c, output) == << (IF c = 49 THEN 113 ELSE 112), Byte(output) >>

\* data of output_read: "0\n" with data[0] += response, sizeof(data) bytes
OutputData(response) == << Byte(48 + response), 10, 0 >>

\* A 32-bit uint is kept as its two 16-bit halves << high, low >>.

\* (uint) of a char holding byte b: a signed char with the top bit set is
\* sign-extended
CharToUint(b, signed) ==
    IF signed /\ b >= 128 THEN << 65535, 65280 + b >> ELSE << 0, b >>

\* u << 16
Shl16(u) == << u[2], 0 >>

\* u << 8
Shl8(u) == << (u[1] * 256 + (u[2] \div 256)) % 65536, (u[2] * 256) % 65536 >>

\* u + v, modulo 2^32
AddUint(u, v) ==
    << (u[1] + v[1] + ((u[2] + v[2]) \div 65536)) % 65536, (u[2] + v[2]) % 65536 >>

\* ((uint)response[2] << 16) + ((uint)response[1] << 8) + response[0]
CardNumber(response, signed) ==
    AddUint(AddUint(Shl16(CharToUint(response[3], signed)),
                    Shl8(CharToUint(response[2], signed))),
            CharToUint(response[1], signed))

\* the int with the bits of uint u
UintAsInt(u) == (IF u[1] >= 32768 THEN u[1] - 65536 ELSE u[1]) * 65536 + u[2]

RECURSIVE Digits(_)
Digits(n) == IF n < 10 THEN << 48 + n >> ELSE Append(Digits(n \div 10), 48 + (n % 10))

\* "%d\n" of a uint: printed as the int with the same bits
FormatCard(u) ==
    LET i == UintAsInt(u)
    IN  (IF i < 0 THEN << 45 >> \o Digits(-i) ELSE Digits(i)) \o << 10 >>

\* the READER_DATA_SIZE bytes of data after memset(data, 0, sizeof(response))
\* and snprintf(data, sizeof(data), "%d\n", card_number); junk is the value
\* of the bytes neither of them wrote
ReaderData(u, junk) ==
    LET text == FormatCard(u)
        n    == IF Len(text) > READER_DATA_SIZE - 1
                THEN READER_DATA_SIZE - 1 ELSE Len(text)
    IN  [ i \in 1..READER_DATA_SIZE |->
            IF i <= n THEN text[i]
            ELSE IF i = n + 1 THEN 0
            ELSE IF i <= READER_RESP_SIZE THEN 0
            ELSE junk ]

\* ------------------------------------------------------------- bus transfers

\* i2c_master_send of `bytes` by handle p
SendXfer(p, bytes, ok) == [kind |-> "send", bytes |-> bytes, ok |-> ok, own |-> TRUE]

\* i2c_master_recv of n bytes by handle p; own: the request the board
\* answers is the one p sent last
RecvXfer(p, n, ok) == [kind |-> "recv", bytes |-> << n >>, ok |-> ok, own |-> sel = p]

\* the board latches the request of a send that reached it
SelAfterSend(p, ok) == IF ok THEN p ELSE sel

\* a handle that starts a call or is closed drops its previous result
Forget(p) == IF last.h = p THEN NoCall ELSE last

\* ----------------------------------------------------------- file operations

\* open of a registered misc device (misc_open sets file->private_data)
open(p) ==
    /\ ~oops
    /\ hch[p] = NoChan
    /\ \E ch \in Channels :
          /\ registered[ch]
          /\ hch' = [hch EXCEPT ![p] = ch]
    /\ fpos' = [fpos EXCEPT ![p] = 0]
    /\ UNCHANGED << stale, pc, xfer, sel, last, oops >>
    /\ UNCHANGED hostVars

\* release of a handle with no call in progress
close(p) ==
    /\ ~oops
    /\ hch[p] # NoChan
    /\ pc[p] = "idle"
    /\ hch' = [hch EXCEPT ![p] = NoChan]
    /\ stale' = [stale EXCEPT ![p] = FALSE]
    /\ fpos' = [fpos EXCEPT ![p] = 0]
    /\ last' = Forget(p)
    /\ UNCHANGED << pc, xfer, sel, oops >>
    /\ UNCHANGED hostVars

\* a call on a handle whose expansion_dev was released reads freed memory
\* (device->client): one outcome is a fault, which kills the caller and
\* releases its handle; the other is that the call goes on with the old
\* contents (the actions below)
stale_fault(p) ==
    /\ ~oops
    /\ hch[p] # NoChan
    /\ stale[p]
    /\ oops' = TRUE
    /\ hch' = [hch EXCEPT ![p] = NoChan]
    /\ stale' = [stale EXCEPT ![p] = FALSE]
    /\ fpos' = [fpos EXCEPT ![p] = 0]
    /\ pc' = [pc EXCEPT ![p] = "idle"]
    /\ xfer' = [xfer EXCEPT ![p] = << >>]
    /\ last' = Forget(p)
    /\ UNCHANGED sel
    /\ UNCHANGED hostVars

\* output_read at *f_pos == 0, up to and including i2c_master_send
output_read_send(p) ==
    /\ ~oops
    /\ hch[p] \in Outputs
    /\ pc[p] = "idle"
    /\ fpos[p] = 0
    /\ LET output == IndexFromName(DentryName(hch[p]))
       IN  \E ok \in BOOLEAN :
              /\ xfer' = [xfer EXCEPT ![p] =
                             << SendXfer(p, << OutputAddress(output) >>, ok) >>]
              /\ sel' = SelAfterSend(p, ok)
    /\ pc' = [pc EXCEPT ![p] = "recv"]
    /\ last' = Forget(p)
    /\ UNCHANGED << hch, stale, fpos, oops >>
    /\ UNCHANGED hostVars

\* output_read from i2c_master_recv to its return
output_read_recv(p) ==
    /\ ~oops
    /\ hch[p] \in Outputs
    /\ pc[p] = "recv"
    /\ \E ok \in BOOLEAN, fault \in BOOLEAN :
       \* a failed receive leaves `response` uninitialised; when the copy
       \* to the caller fails the response is never seen
       \E response \in (IF fault THEN {0}
                        ELSE IF ok THEN RespBytes ELSE StackJunk) :
          LET data  == OutputData(response)
              count == OUTPUT_DATA_SIZE
              ret   == IF fault THEN -EFAULT ELSE count
              pos1  == IF fault THEN fpos[p] ELSE fpos[p] + count
          IN  /\ fpos' = [fpos EXCEPT ![p] = pos1]
              /\ last' = [NoCall EXCEPT
                            !.h = p, !.op = "output_read", !.ch = hch[p],
                            !.ret = ret,
                            !.out = IF fault THEN << >> ELSE data,
                            !.resp = IF fault THEN << >> ELSE << response >>,
                            !.xfer = Append(xfer[p], RecvXfer(p, 1, ok)),
                            !.pos0 = fpos[p], !.pos1 = pos1]
    /\ pc' = [pc EXCEPT ![p] = "idle"]
    /\ xfer' = [xfer EXCEPT ![p] = << >>]
    /\ UNCHANGED << hch, stale, sel, oops >>
    /\ UNCHANGED hostVars

\* output_read at *f_pos != 0: return 0
output_read_eof(p) ==
    /\ ~oops
    /\ hch[p] \in Outputs
    /\ pc[p] = "idle"
    /\ fpos[p] # 0
    /\ last' = [NoCall EXCEPT !.h = p, !.op = "output_read", !.ch = hch[p],
                              !.ret = 0, !.pos0 = fpos[p], !.pos1 = fpos[p]]
    /\ UNCHANGED << hch, stale, fpos, pc, xfer, sel, oops >>
    /\ UNCHANGED hostVars

\* the kinds and bytes of a sequence of transfers
Wire(xf) == [ i \in 1..Len(xf) |-> << xf[i].kind, xf[i].bytes >> ]

\* the write of handle p that returned just before the one starting, kept
\* while p is the only open handle
PrevWrite(p) ==
    IF /\ last.op = "output_write"
       /\ last.h = p
       /\ \A q \in Handles \ {p} : hch[q] = NoChan
    THEN << last.resp, Wire(last.xfer) >>
    ELSE << >>

\* write requests: req.len, req.c the first character of the buffer,
\* req.fault: copy_from_user fails, req.ok: the send succeeds (a field the
\* call never gets to use is given one value only)
WriteRequests ==
    { [len |-> 0, c |-> 48, fault |-> FALSE, ok |-> TRUE] }
    \cup { [len |-> n, c |-> 48, fault |-> TRUE, ok |-> TRUE] :
             n \in 1..MaxWriteLen }
    \cup [len : 1..MaxWriteLen, c : WriteChars, fault : {FALSE}, ok : BOOLEAN]

\* (variant: the command sent twice)
WriteResultResend(p, req) ==
    LET output == IndexFromName(DentryName(hch[p]))
        cmd    == OutputCommand(req.c, output)
    IN  IF req.len = 0 THEN [ret |-> 0, xfer |-> << >>]
        ELSE IF req.fault THEN [ret |-> -EFAULT, xfer |-> << >>]
        ELSE [ret |-> req.len,
              xfer |-> << SendXfer(p, cmd, req.ok), SendXfer(p, cmd, req.ok) >>]

\* (variant: without the test of len)
WriteResultNoLenTest(p, req) ==
    LET output == IndexFromName(DentryName(hch[p]))
        cmd    == OutputCommand(req.c, output)
    IN  IF req.fault THEN [ret |-> -EFAULT, xfer |-> << >>]
        ELSE [ret |-> req.len, xfer |-> << SendXfer(p, cmd, req.ok) >>]

\* the return value and the transfers of output_write
WriteResult(p, req) ==
    LET output == IndexFromName(DentryName(hch[p]))
        cmd    == OutputCommand(req.c, output)
    IN  IF req.len = 0 THEN [ret |-> 0, xfer |-> << >>]
        ELSE IF req.fault THEN [ret |-> -EFAULT, xfer |-> << >>]
        ELSE [ret |-> req.len, xfer |-> << SendXfer(p, cmd, req.ok) >>]

\* output_write
output_write(p) ==
    /\ ~oops
    /\ hch[p] \in Outputs
    /\ pc[p] = "idle"
    /\ \E req \in WriteRequests :
          LET r == WriteResult(p, req)
          IN  /\ last' = [NoCall EXCEPT
                            !.h = p, !.op = "output_write", !.ch = hch[p],
                            !.ret = r.ret, !.xfer = r.xfer,
                            !.resp = IF req.len = 0 \/ req.fault
                                     THEN << >> ELSE << req.c >>,
                            !.pos0 = fpos[p], !.pos1 = fpos[p],
                            !.len = req.len,
                            !.prev = PrevWrite(p)]
              /\ sel' = IF r.xfer # << >> THEN SelAfterSend(p, req.ok) ELSE sel
    /\ UNCHANGED << hch, stale, fpos, pc, xfer, oops >>
    /\ UNCHANGED hostVars

\* reader_read at *f_pos == 0, up to and including i2c_master_send
reader_read_send(p) ==
    /\ ~oops
    /\ hch[p] \in Readers
    /\ pc[p] = "idle"
    /\ fpos[p] = 0
    /\ LET reader == IndexFromName(DentryName(hch[p]))
       IN  \E ok \in BOOLEAN :
              /\ xfer' = [xfer EXCEPT ![p] =
                             << SendXfer(p, << ReaderAddress(reader) >>, ok) >>]
              /\ sel' = SelAfterSend(p, ok)
    /\ pc' = [pc EXCEPT ![p] = "recv"]
    /\ last' = Forget(p)
    /\ UNCHANGED << hch, stale, fpos, oops >>
    /\ UNCHANGED hostVars

\* reader_read from the memset to its return
reader_read_recv(p) ==
    /\ ~oops
    /\ hch[p] \in Readers
    /\ pc[p] = "recv"
    /\ \E ok \in BOOLEAN, fault \in BOOLEAN :
       \E junk \in (IF fault THEN {0} ELSE StackJunk) :
       \* whether plain char is signed is the build's choice
       \E signed \in (IF fault THEN {FALSE} ELSE CharSigned) :
       \* a failed receive leaves `response` uninitialised; when the copy
       \* to the caller fails the response is never seen
       \E response \in (IF fault \/ ~ok
                        THEN { [i \in 1..READER_RESP_SIZE |-> junk] }
                        ELSE RespCards) :
          LET data  == ReaderData(CardNumber(response, signed), junk)
              count == READER_DATA_SIZE
              ret   == IF fault THEN -EFAULT ELSE count
              pos1  == IF fault THEN fpos[p] ELSE fpos[p] + count
          IN  /\ fpos' = [fpos EXCEPT ![p] = pos1]
              /\ last' = [NoCall EXCEPT
                            !.h = p, !.op = "reader_read", !.ch = hch[p],
                            !.ret = ret,
                            !.out = IF fault THEN << >> ELSE data,
                            !.resp = IF fault THEN << >> ELSE response,
                            !.xfer = Append(xfer[p],
                                            RecvXfer(p, READER_RESP_SIZE, ok)),
                            !.pos0 = fpos[p], !.pos1 = pos1]
    /\ pc' = [pc EXCEPT ![p] = "idle"]
    /\ xfer' = [xfer EXCEPT ![p] = << >>]
    /\ UNCHANGED << hch, stale, sel, oops >>
    /\ UNCHANGED hostVars

\* reader_read at *f_pos != 0: return 0
reader_read_eof(p) ==
    /\ ~oops
    /\ hch[p] \in Readers
    /\ pc[p] = "idle"
    /\ fpos[p] # 0
    /\ last' = [NoCall EXCEPT !.h = p, !.op = "reader_read", !.ch = hch[p],
                              !.ret = 0, !.pos0 = fpos[p], !.pos1 = fpos[p]]
    /\ UNCHANGED << hch, stale, fpos, pc, xfer, sel, oops >>
    /\ UNCHANGED hostVars

Init ==
    /\ addr \in ClientAddrs
    /\ bound = "unbound"
    /\ clientdata = "null"
    /\ registered = [c \in Channels |-> FALSE]
    /\ oops = FALSE
    /\ hch = [p \in Handles |-> NoChan]
    /\ stale = [p \in Handles |-> FALSE]
    /\ fpos = [p \in Handles |-> 0]
    /\ pc = [p \in Handles |-> "idle"]
    /\ xfer = [p \in Handles |-> << >>]
    /\ sel = 0
    /\ last = NoCall

Next ==
    \/ probe
    \/ probe_unrecognised
    \/ remove
    \/ remove_null
    \/ \E p \in Handles : open(p)
    \/ \E p \in Handles : close(p)
    \/ \E p \in Handles : stale_fault(p)
    \/ \E p \in Handles : output_read_send(p)
    \/ \E p \in Handles : output_read_recv(p)
    \/ \E p \in Handles : output_read_eof(p)
    \/ \E p \in Handles : output_write(p)
    \/ \E p \in Handles : reader_read_send(p)
    \/ \E p \in Handles : reader_read_recv(p)
    \/ \E p \in Handles : reader_read_eof(p)

Spec == Init /\ [][Next]_vars

\* ------------------------------------------------------------------- claims

AllRegistered == \A c \in Channels : registered[c]

NoneRegistered == \A c \in Channels : ~registered[c]

\* the misc_register call that failed in the call that returned last
\* (<< NoChan, 0 >> when none did)
FailedReg ==
    IF last.rlog # << >> /\ last.rlog[Len(last.rlog)][2] # 0
    THEN last.rlog[Len(last.rlog)]
    ELSE << NoChan, 0 >>

\* C1: when probe of a client at the board address returns, either it
\* returned 0 and every output and reader is registered, or it returned an
\* error and no channel is registered, whichever registration failed.
AttachAllOrNothing ==
    (last.op = "probe" /\ addr = BOARD_ADDR) =>
        \/ last.ret = 0 /\ AllRegistered /\ FailedReg[1] = NoChan
        \/ last.ret # 0 /\ NoneRegistered /\ FailedReg[1] # NoChan

\* a probe that failed at the second reader and left nothing registered
AttachAllOrNothingWitness ==
    /\ last.op = "probe"
    /\ FailedReg[1] = Rd(READERS_COUNT - 1)
    /\ last.ret # 0
    /\ NoneRegistered
    /\ Len(last.dlog) = OUTPUTS_COUNT + READERS_COUNT - 1

\* C2: when registering output k fails with error e, probe has attempted
\* outputs 0..k only (no later output, no reader), has unregistered exactly
\* outputs 0..k-1, each registered at that time, and returns e.
OutputRollback ==
    \A k \in 0..(OUTPUTS_COUNT - 1) :
        (last.op = "probe" /\ FailedReg[1] = Out(k)) =>
            /\ last.rlog = [ i \in 1..(k + 1) |->
                               << Out(i - 1), IF i = k + 1 THEN FailedReg[2] ELSE 0 >> ]
            /\ last.dlog = [ i \in 1..k |-> << Out(i - 1), TRUE >> ]
            /\ last.ret = FailedReg[2]
            /\ last.ret # 0
            /\ \A c \in Readers : ~registered[c]
            /\ \A j \in k..(OUTPUTS_COUNT - 1) : ~registered[Out(j)]

\* output 1 failed to register: output 0 alone was unregistered
OutputRollbackWitness ==
    /\ last.op = "probe"
    /\ FailedReg[1] = Out(1)
    /\ last.dlog = << << Out(0), TRUE >> >>
    /\ Len(last.rlog) = 2
    /\ last.ret = FailedReg[2]

\* C3: when registering reader k fails with error e, probe has registered
\* every output and readers 0..k-1, attempted no reader beyond k, has
\* unregistered readers 0..k-1 and every output, each exactly once and each
\* registered at that time, and returns e.
ReaderRollback ==
    \A k \in 0..(READERS_COUNT - 1) :
        (last.op = "probe" /\ FailedReg[1] = Rd(k)) =>
            /\ last.rlog = [ i \in 1..(OUTPUTS_COUNT + k + 1) |->
                               IF i <= OUTPUTS_COUNT THEN << Out(i - 1), 0 >>
                               ELSE IF i <= OUTPUTS_COUNT + k
                                    THEN << Rd(i - OUTPUTS_COUNT - 1), 0 >>
                                    ELSE << Rd(k), FailedReg[2] >> ]
            /\ Len(last.dlog) = OUTPUTS_COUNT + k
            /\ { last.dlog[i] : i \in 1..Len(last.dlog) }
                 = { << c, TRUE >> : c \in Outputs \cup { Rd(j) : j \in 0..(k - 1) } }
            /\ last.ret = FailedReg[2]
            /\ last.ret # 0
            /\ NoneRegistered

\* reader 0 failed to register: the three outputs were unregistered and no
\* reader was
ReaderRollbackWitness ==
    /\ last.op = "probe"
    /\ FailedReg[1] = Rd(0)
    /\ Len(last.dlog) = OUTPUTS_COUNT
    /\ \A i \in 1..OUTPUTS_COUNT : last.dlog[i] = << Out(i - 1), TRUE >>
    /\ NoneRegistered
    /\ last.ret # 0

\* C4: remove calls misc_deregister on every channel, the outputs in
\* ascending order and then the readers in ascending order, and when it
\* returns no channel is registered.
DetachUnregistersAll ==
    last.op = "remove" =>
        /\ Len(last.dlog) = OUTPUTS_COUNT + READERS_COUNT
        /\ \A i \in 1..Len(last.dlog) :
              last.dlog[i][1] = IF i <= OUTPUTS_COUNT THEN Out(i - 1)
                                ELSE Rd(i - OUTPUTS_COUNT - 1)
        /\ NoneRegistered
        /\ last.ret = 0

\* remove has returned after unregistering channels that were registered
DetachUnregistersAllWitness ==
    /\ last.op = "remove"
    /\ Len(last.dlog) = OUTPUTS_COUNT + READERS_COUNT
    /\ \A i \in 1..Len(last.dlog) : last.dlog[i][2]
    /\ NoneRegistered

\* C5: a receive answers the request the same call sent: in a read whose
\* send succeeded, no other call's send reaches the board before the
\* read's receive.
BusTransactionAtomic ==
    (last.op \in {"output_read", "reader_read"} /\ Len(last.xfer) = 2
        /\ last.xfer[1].ok)
    => last.xfer[2].own

\* C6: no call is between its send and its receive on a handle whose board
\* has been removed (remove waits for, or excludes, calls in progress).
DetachExcludesCalls ==
    \A p \in Handles : pc[p] = "recv" => ~stale[p]

\* C7: a read whose send or receive failed returns an error, copies nothing
\* to the caller and leaves the file position where it was.
ReadTransportErrorPropagates ==
    (last.op \in {"output_read", "reader_read"}
        /\ \E i \in 1..Len(last.xfer) : ~last.xfer[i].ok)
    => (last.ret < 0 /\ last.out = << >> /\ last.pos1 = last.pos0)

\* C8: a non-empty write whose send failed does not return success.
WriteTransportErrorPropagates ==
    (last.op = "output_write" /\ last.len > 0
        /\ \E i \in 1..Len(last.xfer) : ~last.xfer[i].ok)
    => last.ret < 0

\* C9: a client at another address than the board's is never bound: probe
\* returns an error, no device is allocated, no channel is registered, and
\* remove is never called for it.
UnrecognisedAddressRejected ==
    addr # BOARD_ADDR =>
        /\ last.op = "probe" => last.ret # 0
        /\ bound = "unbound"
        /\ clientdata = "null"
        /\ NoneRegistered
        /\ last.op \notin {"remove", "remove_fault"}

\* C10: an output read that received the response r to its own request
\* delivers the character
\* '1' when the least-significant bit of r is 1 and '0' otherwise, then a
\* newline.
OutputReadRendersBit ==
    (last.op = "output_read" /\ last.out # << >>
        /\ last.xfer[1].ok /\ last.xfer[2].ok /\ last.xfer[2].own) =>
        /\ last.out[1] = 48 + (last.resp[1] % 2)
        /\ last.out[2] = 10

\* the text in the bytes a reader read delivered: those before the first NUL
TextOf(bytes) ==
    LET n == CHOOSE k \in 1..(Len(bytes) + 1) :
                 /\ k = Len(bytes) + 1 \/ bytes[k] = 0
                 /\ \A m \in 1..(k - 1) : bytes[m] # 0
    IN  SubSeq(bytes, 1, n - 1)

\* C11: a reader read that received the response b0, b1, b2, ... delivers
\* the decimal text of b0 + 256*b1 + 65536*b2 and a newline, whatever the
\* five trailing bytes are.
CardDecodesLittleEndian ==
    (last.op = "reader_read" /\ last.out # << >> /\ last.xfer[2].ok) =>
        TextOf(last.out)
          = Digits(last.resp[1] + 256 * last.resp[2] + 65536 * last.resp[3])
            \o << 10 >>

\* C12: a write that copied a character issues one send and no receive,
\* of [0x71, i] when the character is '1' and [0x70, i] otherwise; so a
\* write of '1' followed by a write of another character on output i
\* issues exactly the sends [0x71, i] then [0x70, i].
SetOnThenOff ==
    \A i \in 0..(OUTPUTS_COUNT - 1) :
        (last.op = "output_write" /\ last.ch = Out(i) /\ last.resp # << >>) =>
            /\ Wire(last.xfer)
                 = << << "send", << (IF last.resp[1] = 49 THEN 113 ELSE 112), i >> >> >>
            /\ (last.prev # << >> /\ last.prev[1] = << 49 >> /\ last.resp[1] # 49) =>
                 last.prev[2] \o Wire(last.xfer)
                   = << << "send", << 113, i >> >>, << "send", << 112, i >> >> >>

\* output 2 was set ON and then OFF
SetOnThenOffWitness ==
    /\ last.op = "output_write"
    /\ last.ch = Out(2)
    /\ last.resp = << 48 >>
    /\ last.prev # << >>
    /\ last.prev[1] = << 49 >>
    /\ last.prev[2] \o Wire(last.xfer)
         = << << "send", << 113, 2 >> >>, << "send", << 112, 2 >> >> >>

\* C13: a write of length zero returns 0 and issues no transfer, so the
\* board is sent no command and the output keeps its state; the file
\* position is left alone.
ZeroLengthSetIsNoOp ==
    (last.op = "output_write" /\ last.len = 0) =>
        /\ last.ret = 0
        /\ last.xfer = << >>
        /\ last.pos1 = last.pos0

\* a write of length zero returned on output 1
ZeroLengthSetIsNoOpWitness ==
    /\ last.op = "output_write"
    /\ last.len = 0
    /\ last.ch = Out(1)
    /\ last.ret = 0

\* the address a read of channel ch sends to the board
QueryAddress(ch) ==
    IF ch \in Outputs
    THEN OutputAddress(IndexFromName(DentryName(ch)))
    ELSE ReaderAddress(IndexFromName(DentryName(ch)))

\* C14: a read of output i sends the one byte 0x70 + i and a read of
\* reader j the one byte 0x10 + 8*j, and the addresses of the five
\* channels are pairwise distinct.
QueryAddressesDistinct ==
    /\ \A i \in 0..(OUTPUTS_COUNT - 1) :
          (last.op = "output_read" /\ last.ch = Out(i) /\ last.xfer # << >>) =>
              Wire(last.xfer)[1] = << "send", << 112 + i >> >>
    /\ \A j \in 0..(READERS_COUNT - 1) :
          (last.op = "reader_read" /\ last.ch = Rd(j) /\ last.xfer # << >>) =>
              Wire(last.xfer)[1] = << "send", << 16 + 8 * j >> >>
    /\ \A c, d \in Channels : c # d => QueryAddress(c) # QueryAddress(d)

\* reader 1 was queried at address 0x18
QueryAddressesDistinctWitness ==
    /\ last.op = "reader_read"
    /\ last.ch = Rd(1)
    /\ last.xfer # << >>
    /\ last.xfer[1].bytes = << 24 >>

\* the channels in the order s0, s1, s2, w0, w1
RegOrder ==
    [ k \in 1..(OUTPUTS_COUNT + READERS_COUNT) |->
        IF k <= OUTPUTS_COUNT THEN Out(k - 1) ELSE Rd(k - 1 - OUTPUTS_COUNT) ]

\* C15: the registrations an attach attempts are an initial part of
\* s0, s1, s2, w0, w1, each attempted only after the ones before it
\* succeeded: no reader is attempted before every output is registered.
RegistrationOrder ==
    last.op = "probe" =>
        /\ Len(last.rlog) <= OUTPUTS_COUNT + READERS_COUNT
        /\ \A k \in 1..Len(last.rlog) :
              /\ last.rlog[k][1] = RegOrder[k]
              /\ k < Len(last.rlog) => last.rlog[k][2] = 0
              /\ last.rlog[k][1] \in Readers =>
                    \A o \in Outputs :
                        \E m \in 1..(k - 1) : last.rlog[m] = << o, 0 >>
        /\ last.ret = 0 /\ AddrAccepted(addr) =>
              Len(last.rlog) = OUTPUTS_COUNT + READERS_COUNT

\* an attach that registered the five channels
RegistrationOrderWitness ==
    /\ last.op = "probe"
    /\ last.ret = 0
    /\ Len(last.rlog) = OUTPUTS_COUNT + READERS_COUNT
    /\ last.rlog[OUTPUTS_COUNT + 1] = << Rd(0), 0 >>

\* the channels of a kind that are registered
RegisteredOf(kind) == { c \in kind : registered[c] }

\* C16: while a Board is attached, exactly OUTPUTS_COUNT outputs named
\* /exp0/s0.. and READERS_COUNT readers named /exp0/w0.. are registered,
\* their names are pairwise distinct, and the index a file operation takes
\* from the second character of the node name is the index the channel
\* was registered with, within the count of its kind.
ChannelsNamedAndIndexed ==
    (bound = "bound" /\ clientdata = "dev") =>
        /\ Cardinality(RegisteredOf(Outputs)) = OUTPUTS_COUNT
        /\ Cardinality(RegisteredOf(Readers)) = READERS_COUNT
        /\ \A i \in 0..(OUTPUTS_COUNT - 1) :
              /\ registered[Out(i)]
              /\ MiscName(Out(i)) = BoardName \o << 47, 115, 48 + i >>
        /\ \A j \in 0..(READERS_COUNT - 1) :
              /\ registered[Rd(j)]
              /\ MiscName(Rd(j)) = BoardName \o << 47, 119, 48 + j >>
        /\ \A c, d \in Channels : c # d => MiscName(c) # MiscName(d)
        /\ \A c \in Channels :
              /\ DentryName(c) = << (IF c \in Outputs THEN 115 ELSE 119), 48 + c[2] >>
              /\ IndexFromName(DentryName(c)) = c[2]
        /\ \A c \in Outputs : IndexFromName(DentryName(c)) \in 0..(OUTPUTS_COUNT - 1)
        /\ \A c \in Readers : IndexFromName(DentryName(c)) \in 0..(READERS_COUNT - 1)
        /\ \A p \in Handles :
              (hch[p] # NoChan /\ ~stale[p]) =>
                  /\ registered[hch[p]]
                  /\ IndexFromName(DentryName(hch[p])) = hch[p][2]

\* a Board is attached and a handle is open on reader 1
ChannelsNamedAndIndexedWitness ==
    /\ bound = "bound"
    /\ clientdata = "dev"
    /\ \A c \in Channels : registered[c]
    /\ \E p \in Handles : hch[p] = Rd(1) /\ ~stale[p]

\* C17: a read whose send failed issued no receive, so it made only the
\* transfer that failed; a read whose transfers succeeded made exactly one
\* send and then one receive.
TransportFailureTerminal ==
    (last.op \in {"output_read", "reader_read"} /\ last.xfer # << >>) =>
        /\ last.xfer[1].kind = "send"
        /\ ~last.xfer[1].ok => Len(last.xfer) = 1
        /\ last.xfer[1].ok =>
              /\ Len(last.xfer) = 2
              /\ last.xfer[2].kind = "recv"

\* C18: a detach unregisters only channels that are registered, and is
\* never run on a client that has no Board.
UnregistersOnlyRegistered ==
    /\ last.op # "remove_fault"
    /\ \A k \in 1..Len(last.dlog) : last.dlog[k][2]

\* the call that returned last is a read
IsRead == last.op \in {"output_read", "reader_read"}

\* the statement of C19 as written: the read at position 0 issues one send
\* and one receive and always advances the position; a read elsewhere
\* returns 0 without a transfer; a write leaves the position and issues at
\* most one send.
FirstReadAlwaysAdvances ==
    /\ (IsRead /\ last.pos0 = 0) =>
          /\ Wire(last.xfer)[1][1] = "send"
          /\ Len(last.xfer) = 2
          /\ last.xfer[2].kind = "recv"
          /\ last.pos1 > 0
    /\ (IsRead /\ last.pos0 # 0) =>
          /\ last.ret = 0
          /\ last.xfer = << >>
    /\ last.op = "output_write" =>
          /\ last.pos1 = last.pos0
          /\ Len(last.xfer) <= 1

\* C19 (amended): a read at position 0 issues exactly one send and one
\* receive; it advances the position by the length it delivered when the
\* copy to the caller succeeds, and returns -EFAULT with the position still
\* 0 when it fails. A read at a position other than 0 returns 0 and issues
\* no transfer. A write leaves the position of its handle and issues at
\* most one transfer, a send.
ReadAtZeroTransacts ==
    /\ (IsRead /\ last.pos0 = 0) =>
          /\ Len(last.xfer) = 2
          /\ last.xfer[1].kind = "send"
          /\ last.xfer[2].kind = "recv"
          /\ \/ last.ret = -EFAULT /\ last.pos1 = 0
             \/ last.ret > 0 /\ last.pos1 = last.ret /\ Len(last.out) = last.ret
    /\ (IsRead /\ last.pos0 # 0) =>
          /\ last.ret = 0
          /\ last.xfer = << >>
          /\ last.pos1 = last.pos0
    /\ last.op = "output_write" =>
          /\ last.pos1 = last.pos0
          /\ fpos[last.h] = last.pos0
          /\ Len(last.xfer) <= 1
          /\ \A k \in 1..Len(last.xfer) : last.xfer[k].kind = "send"
    /\ \A p \in Handles :
          fpos[p] # 0 =>
              \/ hch[p] \in Outputs /\ fpos[p] = OUTPUT_DATA_SIZE
              \/ hch[p] \in Readers /\ fpos[p] = READER_DATA_SIZE

\* a read at position 0 made its two transfers and failed to copy, leaving
\* the position at 0
ReadAtZeroTransactsWitness ==
    /\ last.op = "output_read"
    /\ last.pos0 = 0
    /\ last.ret = -EFAULT
    /\ Len(last.xfer) = 2
    /\ fpos[last.h] = 0

====
